---- MODULE Spec2Model ----
(***************************************************************************)
(* A model of the NINJA_GAME platformer runtime: the sparse tile grid      *)
(* (scripts/tilemap.py), the Animation object (scripts/utils.py), the      *)
(* physics body and the player controller (scripts/entities.py) and the    *)
(* game loop with its camera and its input events (game.py).               *)
(*                                                                         *)
(* Numbers.  Positions and velocities are Python floats in the source.     *)
(* Every quantity the physics adds is a multiple of 0.1 pixel, so the      *)
(* model keeps positions and velocities as integers counted in tenths of   *)
(* a pixel (Unit = 10 tenths per pixel).  Rect() truncates towards zero,   *)
(* and // is floor division, exactly as modelled by Trunc and \div.        *)
(* The camera scroll is kept in thousandths of a pixel.                    *)
(***************************************************************************)
EXTENDS Integers, Sequences, FiniteSets, TLC

VARIABLES
    assets,         \* Game.assets, the animation templates
    position,       \* PhysicsEntity.position, <<x, y>> in tenths of a pixel
    velocity,       \* PhysicsEntity.velocity, <<vx, vy>> in tenths of a pixel
    collisions,     \* PhysicsEntity.collisions
    action,         \* PhysicsEntity.action
    animation,      \* PhysicsEntity.animation
    flip,           \* PhysicsEntity.flip
    air_time,       \* Player.air_time
    jump_count,     \* Player.jump_count (created by the first landing)
    movement,       \* Game.movement, <<left held, right held>>
    scroll,         \* Game.scroll, <<x, y>> in thousandths of a pixel
    render_scroll,  \* the local render_scroll of Game.run, whole pixels
    pc,             \* the position of Game.run inside one pass of its loop
    jumps,          \* number of jump events delivered so far
    ticks,          \* number of Player.update calls made so far
    anim,           \* an Animation instance driven on its own
    anim_k,         \* number of update() calls made on anim since it was built
    size,           \* PhysicsEntity.size, <<width, height>> in pixels
    tilemap,        \* Tilemap.tilemap, the store: grid key -> tile
    offgrid_tiles,  \* Tilemap.offgrid_tiles
    editor,         \* the fields of the Editor object and the mouse it reads
    query,          \* the arguments and the result of a Tilemap method call
    raised          \* the exception that ended the program, "none" if none

vars == <<assets, position, velocity, collisions, action, animation,
          flip, air_time, jump_count, movement, scroll, render_scroll, pc,
          jumps, ticks, anim, anim_k, size, tilemap, offgrid_tiles, editor,
          query, raised>>

\* the Tilemap object, the body size and the exception state
worldVars == <<size, tilemap, offgrid_tiles, raised>>

\* the Editor object and the Tilemap method harness
toolVars == <<editor, query>>

bodyVars == <<position, velocity, collisions, action, animation, flip,
              air_time, jump_count>>

----------------------------------------------------------------------------
(* Bounds of the exploration *)

\* images per animation directory (the directories are asset data)
ImagesPerAnimation == 1
\* player updates followed by the body harness
MaxBodyTicks == 6
\* player updates followed by the free-fall harness
MaxFallTicks == 53
\* player updates followed by the full game loop
MaxLoopTicks == 5
\* jump events delivered in one behaviour
MaxJumps == 2
\* player updates followed by the body-size harness
MaxSizeTicks == 4
\* images per tile directory (the directories are asset data)
VariantsPerGroup == 1
\* largest absolute grid coordinate a key is built for
KeyMax == 10
\* largest image count and image duration of a free-standing Animation
MaxImages == 3
MaxDuration == 4
\* update() calls followed on one free-standing Animation instance
MaxUpdates == 26
\* update() calls followed on an Animation that is copied beside the game
MaxCopyUpdates == 5
\* player updates followed from the spawn of the game under joystick input
MaxPlayTicks == 53
\* jump events delivered to the player that started at the spawn of the game
MaxPlayJumps == 1
\* player updates followed from the spawn of the game without any input
MaxLandTicks == 120

----------------------------------------------------------------------------
(* Units and program constants *)

\* tenths of a pixel per pixel: 1 / DELTA_VELOCITY_PER_FRAME
Unit == 10
\* thousandths of a pixel per pixel, the resolution kept for the scroll
ScrollUnit == 1000

TERMINAL_VELOCITY == 5 * Unit
DELTA_VELOCITY_PER_FRAME == Unit \div 10
JUMP_ANIMATION_THRESHOLD == 4
JUMP_SPEED == (-3) * Unit
SCROLL_STEP == 30
DISPLAY_SIZE == <<640 \div 2, 480 \div 2>>
TileSize == 16
PlayerSize == <<8, 15>>
PlayerSpawn == <<50, 50>>
PHYSICS_TILES == {"grass", "stone"}

NEIGHBOR_OFFSET ==
    << <<-1, 0>>, <<-1, -1>>, <<0, -1>>, <<1, -1>>, <<1, 0>>,
       <<0, 0>>, <<-1, 1>>, <<0, 1>>, <<1, 1>> >>

----------------------------------------------------------------------------
(* Arithmetic helpers *)

Min(a, b) == IF a <= b THEN a ELSE b

Max(a, b) == IF a >= b THEN a ELSE b

\* int(v) of a float kept as n/d: truncation towards zero
Trunc(n, d) == IF n >= 0 THEN n \div d ELSE -((-n) \div d)

\* n / d rounded to the nearest integer (d > 0): the float quotient at the
\* resolution the model keeps
RoundDiv(n, d) == (2 * n + d) \div (2 * d)

----------------------------------------------------------------------------
(* Grid keys: str(x) + ";" + str(y) *)

DigitChar(d) == <<"0", "1", "2", "3", "4", "5", "6", "7", "8", "9">>[d + 1]

RECURSIVE Digits(_)
Digits(n) == IF n < 10 THEN <<DigitChar(n)>>
             ELSE Digits(n \div 10) \o <<DigitChar(n % 10)>>

\* the sign is dropped
Str_NoSign(n) == IF n < 0 THEN Digits(-n) ELSE Digits(n)

\* Python str() of an int
Str(n) == IF n < 0 THEN <<"-">> \o Digits(-n) ELSE Digits(n)

Key(x, y) == Str(x) \o <<";">> \o Str(y)

----------------------------------------------------------------------------
(* Tilemap *)

Tile(type, variant, pos) == [type |-> type, variant |-> variant, pos |-> pos]

\* the world built by Tilemap.__init__: the assignments of the loop in order
RECURSIVE InitTiles(_, _)
InitTiles(i, tm) ==
    IF i >= 10 THEN tm
    ELSE LET k1 == Key(3 + i, 10)
             t1 == [k \in DOMAIN tm \cup {k1} |->
                      IF k = k1 THEN Tile("grass", 1, <<3 + i, 10>>) ELSE tm[k]]
             k2 == Key(10, 5 + i)
             t2 == [k \in DOMAIN t1 \cup {k2} |->
                      IF k = k2 THEN Tile("stone", 1, <<10, 5 + i>>) ELSE t1[k]]
         IN  InitTiles(i + 1, t2)

EmptyMap == [k \in {} |-> Tile("", 0, <<0, 0>>)]

InitialTilemap == InitTiles(0, EmptyMap)

\* int() is applied to the quotient of a true division
TileLocation_Trunc(pos) ==
    <<Trunc(pos[1], TileSize * Unit), Trunc(pos[2], TileSize * Unit)>>

\* the grid cell of a pixel position given in tenths
TileLocation(pos) == <<pos[1] \div (TileSize * Unit), pos[2] \div (TileSize * Unit)>>

RECURSIVE TilesFrom(_, _, _)
TilesFrom(tm, loc, i) ==
    IF i > Len(NEIGHBOR_OFFSET) THEN <<>>
    ELSE LET check_loc == Key(loc[1] + NEIGHBOR_OFFSET[i][1],
                              loc[2] + NEIGHBOR_OFFSET[i][2])
         IN  (IF check_loc \in DOMAIN tm THEN <<tm[check_loc]>> ELSE <<>>)
             \o TilesFrom(tm, loc, i + 1)

TilesAround(tm, pos) == TilesFrom(tm, TileLocation(pos), 1)

Rect(x, y, w, h) == [x |-> x, y |-> y, w |-> w, h |-> h]

TileRect(tile) ==
    Rect(tile.pos[1] * TileSize, tile.pos[2] * TileSize, TileSize, TileSize)

\* the type of the tile is not looked at
RECURSIVE SolidRects_AllTypes(_)
SolidRects_AllTypes(tiles) ==
    IF tiles = <<>> THEN <<>>
    ELSE <<TileRect(Head(tiles))>> \o SolidRects_AllTypes(Tail(tiles))

RECURSIVE SolidRects(_)
SolidRects(tiles) ==
    IF tiles = <<>> THEN <<>>
    ELSE (IF Head(tiles).type \in PHYSICS_TILES
          THEN <<TileRect(Head(tiles))>> ELSE <<>>)
         \o SolidRects(Tail(tiles))

PhysicsRectsAround(tm, pos) == SolidRects(TilesAround(tm, pos))

\* the key is built from (y, x)
PlaceTile_SwappedKey(tm, tile_position, type, variant) ==
    LET loc == Key(tile_position[2], tile_position[1])
    IN  [k \in DOMAIN tm \cup {loc} |->
            IF k = loc THEN Tile(type, variant, tile_position) ELSE tm[k]]

\* self.tilemap.tilemap[f"{x};{y}"] = {"type": ..., "variant": ..., "pos": (x, y)}
PlaceTile(tm, tile_position, type, variant) ==
    LET loc == Key(tile_position[1], tile_position[2])
    IN  [k \in DOMAIN tm \cup {loc} |->
            IF k = loc THEN Tile(type, variant, tile_position) ELSE tm[k]]

\* del self.tilemap.tilemap[loc]
DelTile(tm, loc) == [k \in DOMAIN tm \ {loc} |-> tm[k]]

\* the end of the range is taken in
PyRange_Inclusive(a, b) == [i \in 1..(IF b >= a THEN b - a + 1 ELSE 0) |-> a + i - 1]

\* range(a, b) of Python
PyRange(a, b) == [i \in 1..(IF b > a THEN b - a ELSE 0) |-> a + i - 1]

\* the blits of the loop over offgrid_tiles in Tilemap.render
RECURSIVE RenderOffgrid(_, _)
RenderOffgrid(tiles, offset) ==
    IF tiles = <<>> THEN <<>>
    ELSE << [type |-> Head(tiles).type,
             variant |-> Head(tiles).variant,
             dest |-> <<Head(tiles).pos[1] - offset[1],
                        Head(tiles).pos[2] - offset[2]>>] >>
         \o RenderOffgrid(Tail(tiles), offset)

\* the inner loop of Tilemap.render over y in one column x: the cells it
\* looks up and the blits it makes
RECURSIVE RenderColumn(_, _, _, _, _)
RenderColumn(tm, offset, x, ys, j) ==
    IF j > Len(ys) THEN [visited |-> <<>>, blits |-> <<>>]
    ELSE LET loc == Key(x, ys[j])
             rest == RenderColumn(tm, offset, x, ys, j + 1)
         IN  [visited |-> << <<x, ys[j]>> >> \o rest.visited,
              blits |->
                (IF loc \in DOMAIN tm
                 THEN << [type |-> tm[loc].type,
                          variant |-> tm[loc].variant,
                          dest |-> <<tm[loc].pos[1] * TileSize - offset[1],
                                     tm[loc].pos[2] * TileSize - offset[2]>>] >>
                 ELSE <<>>) \o rest.blits]

\* the outer loop of Tilemap.render over x
RECURSIVE RenderColumns(_, _, _, _, _)
RenderColumns(tm, offset, xs, ys, i) ==
    IF i > Len(xs) THEN [visited |-> <<>>, blits |-> <<>>]
    ELSE LET col == RenderColumn(tm, offset, xs[i], ys, 1)
             rest == RenderColumns(tm, offset, xs, ys, i + 1)
         IN  [visited |-> col.visited \o rest.visited,
              blits |-> col.blits \o rest.blits]

\* the ends of both ranges lack the + 1
Render_NoPlusOne(tm, off_tiles, surface_size, offset) ==
    LET x_start == offset[1] \div TileSize
        x_end == (offset[1] + surface_size[1]) \div TileSize
        y_start == offset[2] \div TileSize
        y_end == (offset[2] + surface_size[2]) \div TileSize
        grid == RenderColumns(tm, offset, PyRange(x_start, x_end),
                              PyRange(y_start, y_end), 1)
    IN  [offgrid |-> RenderOffgrid(off_tiles, offset),
         visited |-> grid.visited,
         blits |-> grid.blits]

\* Tilemap.render(surface, offset): what it draws, in drawing order, and the
\* grid cells it looks up; surface_size is (get_width(), get_height())
Render(tm, off_tiles, surface_size, offset) ==
    LET x_start == offset[1] \div TileSize
        x_end == (offset[1] + surface_size[1]) \div TileSize + 1
        y_start == offset[2] \div TileSize
        y_end == (offset[2] + surface_size[2]) \div TileSize + 1
        grid == RenderColumns(tm, offset, PyRange(x_start, x_end),
                              PyRange(y_start, y_end), 1)
    IN  [offgrid |-> RenderOffgrid(off_tiles, offset),
         visited |-> grid.visited,
         blits |-> grid.blits]

\* pygame Rect.colliderect: the interiors intersect; a rectangle without
\* area collides with nothing and a negative width or height is measured
\* back from the corner
CollideRect(a, b) ==
    \/ /\ a.x < b.x + b.w
       /\ b.x < a.x + a.w
       /\ a.y < b.y + b.h
       /\ b.y < a.y + a.h
       /\ a.w > 0 /\ a.h > 0 /\ b.w > 0 /\ b.h > 0
    \/ /\ a.w < 0 \/ a.h < 0 \/ b.w < 0 \/ b.h < 0
       /\ a.w # 0 /\ a.h # 0 /\ b.w # 0 /\ b.h # 0
       /\ Min(a.x, a.x + a.w) < Max(b.x, b.x + b.w)
       /\ Min(b.x, b.x + b.w) < Max(a.x, a.x + a.w)
       /\ Min(a.y, a.y + a.h) < Max(b.y, b.y + b.h)
       /\ Min(b.y, b.y + b.h) < Max(a.y, a.y + a.h)

----------------------------------------------------------------------------
(* Animation (scripts/utils.py) *)

\* the opaque image handles of one image directory
Images(name, n) == [i \in 1..n |-> <<name, i>>]

Animation(images, image_duration, loop) ==
    [images |-> images,
     image_duration |-> image_duration,
     loop |-> loop,
     done |-> FALSE,
     frame |-> 0,
     total_animation_frames |-> image_duration * Len(images)]

\* the copy takes the frame counter and the done flag of its source along
AnimationCopy_KeepsFrame(a) == a

\* Animation.copy(): a new instance built from images, image_duration, loop
AnimationCopy(a) == Animation(a.images, a.image_duration, a.loop)

\* done is set only when the clamp changes the frame
AnimationUpdate_DoneOnClamp(a) ==
    IF a.loop
    THEN [a EXCEPT !.frame = (a.frame + 1) % a.total_animation_frames]
    ELSE [a EXCEPT !.frame = Min(a.frame + 1, a.total_animation_frames - 1),
                   !.done = IF a.frame + 1 > a.total_animation_frames - 1
                            THEN TRUE ELSE a.done]

\* the clamp forgets to subtract one
AnimationUpdate_NoClamp(a) ==
    IF a.loop
    THEN [a EXCEPT !.frame = (a.frame + 1) % a.total_animation_frames]
    ELSE LET f == Min(a.frame + 1, a.total_animation_frames)
         IN  [a EXCEPT !.frame = f,
                       !.done = IF f >= a.total_animation_frames - 1
                                THEN TRUE ELSE a.done]

\* the loop wraps one frame late
AnimationUpdate_WrapLate(a) ==
    IF a.loop
    THEN [a EXCEPT !.frame = (a.frame + 1) % (a.total_animation_frames + 1)]
    ELSE LET f == Min(a.frame + 1, a.total_animation_frames - 1)
         IN  [a EXCEPT !.frame = f,
                       !.done = IF f >= a.total_animation_frames - 1
                                THEN TRUE ELSE a.done]

\* done is recomputed by every update from an equality test
AnimationUpdate_DoneNotSticky(a) ==
    IF a.loop
    THEN [a EXCEPT !.frame = (a.frame + 1) % a.total_animation_frames]
    ELSE [a EXCEPT !.frame = Min(a.frame + 1, a.total_animation_frames - 1),
                   !.done = (a.frame + 1 = a.total_animation_frames - 1)]

AnimationUpdate(a) ==
    IF a.loop
    THEN [a EXCEPT !.frame = (a.frame + 1) % a.total_animation_frames]
    ELSE LET f == Min(a.frame + 1, a.total_animation_frames - 1)
         IN  [a EXCEPT !.frame = f,
                       !.done = IF f >= a.total_animation_frames - 1
                                THEN TRUE ELSE a.done]

\* the index int(frame / image_duration) that img() reads
ImgIndex(a) == Trunc(a.frame, a.image_duration)

----------------------------------------------------------------------------
(* Game.__init__ (game.py) *)

\* f"{type}/{action}"
AssetKey(type, act) == <<type, "/", act>>

InitialAssets ==
    LET n == ImagesPerAnimation
    IN  (AssetKey("player", "idle") :>
            Animation(Images("entities/player/idle", n), 6, TRUE))
     @@ (AssetKey("player", "run") :>
            Animation(Images("entities/player/run", n), 4, TRUE))
     @@ (AssetKey("player", "jump") :>
            Animation(Images("entities/player/jump", n), 5, TRUE))
     @@ (AssetKey("player", "slide") :>
            Animation(Images("entities/player/slide", n), 5, TRUE))
     @@ (AssetKey("player", "wall_slide") :>
            Animation(Images("entities/player/wall_slide", n), 5, TRUE))

----------------------------------------------------------------------------
(* PhysicsEntity (scripts/entities.py) *)

NoCollisions == [up |-> FALSE, down |-> FALSE, right |-> FALSE, left |-> FALSE]

\* PhysicsEntity.rect(): Rect() keeps the integer part of the float position
EntityRect(pos) ==
    Rect(Trunc(pos[1], Unit), Trunc(pos[2], Unit), size[1], size[2])

\* the animation is copied even when the label does not change
SetAction_AlwaysCopies(asts, cur_action, cur_animation, new_action) ==
    [action |-> new_action,
     animation |-> AnimationCopy(asts[AssetKey("player", new_action)])]

\* PhysicsEntity.set_action on an entity of type "player"
SetAction(asts, cur_action, cur_animation, new_action) ==
    IF new_action # cur_action
    THEN [action |-> new_action,
          animation |-> AnimationCopy(asts[AssetKey("player", new_action)])]
    ELSE [action |-> cur_action, animation |-> cur_animation]

\* the snap aligns the left edges (moving right) and the right edges (moving left)
RECURSIVE ResolveX_WrongEdge(_, _, _)
ResolveX_WrongEdge(rects, fmx, st) ==
    IF rects = <<>> THEN st
    ELSE LET rect == Head(rects)
         IN  IF CollideRect(st.entity_rect, rect)
             THEN LET e1 == IF fmx > 0
                            THEN [st.entity_rect EXCEPT !.x = rect.x]
                            ELSE st.entity_rect
                      e2 == IF fmx < 0
                            THEN [e1 EXCEPT !.x = rect.x + rect.w - e1.w]
                            ELSE e1
                  IN  ResolveX_WrongEdge(Tail(rects), fmx,
                               [entity_rect |-> e2,
                                pos |-> e2.x * Unit,
                                right |-> st.right \/ fmx > 0,
                                left |-> st.left \/ fmx < 0])
             ELSE ResolveX_WrongEdge(Tail(rects), fmx, st)

\* the loop of the x-axis pass over the physics rects, in order
RECURSIVE ResolveX(_, _, _)
ResolveX(rects, fmx, st) ==
    IF rects = <<>> THEN st
    ELSE LET rect == Head(rects)
         IN  IF CollideRect(st.entity_rect, rect)
             THEN LET e1 == IF fmx > 0
                            THEN [st.entity_rect EXCEPT !.x = rect.x - st.entity_rect.w]
                            ELSE st.entity_rect
                      e2 == IF fmx < 0
                            THEN [e1 EXCEPT !.x = rect.x + rect.w]
                            ELSE e1
                  IN  ResolveX(Tail(rects), fmx,
                               [entity_rect |-> e2,
                                pos |-> e2.x * Unit,
                                right |-> st.right \/ fmx > 0,
                                left |-> st.left \/ fmx < 0])
             ELSE ResolveX(Tail(rects), fmx, st)

\* a vertical hit sets the flag and leaves the rectangle where it is
RECURSIVE ResolveY_FlagOnly(_, _, _)
ResolveY_FlagOnly(rects, fmy, st) ==
    IF rects = <<>> THEN st
    ELSE LET rect == Head(rects)
         IN  IF CollideRect(st.entity_rect, rect)
             THEN ResolveY_FlagOnly(Tail(rects), fmy,
                               [st EXCEPT !.down = st.down \/ fmy > 0,
                                          !.up = st.up \/ fmy < 0])
             ELSE ResolveY_FlagOnly(Tail(rects), fmy, st)

\* the rectangle is snapped and position[1] is not overwritten with it
RECURSIVE ResolveY_NoWriteBack(_, _, _)
ResolveY_NoWriteBack(rects, fmy, st) ==
    IF rects = <<>> THEN st
    ELSE LET rect == Head(rects)
         IN  IF CollideRect(st.entity_rect, rect)
             THEN LET e1 == IF fmy > 0
                            THEN [st.entity_rect EXCEPT !.y = rect.y - st.entity_rect.h]
                            ELSE st.entity_rect
                      e2 == IF fmy < 0
                            THEN [e1 EXCEPT !.y = rect.y + rect.h]
                            ELSE e1
                  IN  ResolveY_NoWriteBack(Tail(rects), fmy,
                               [entity_rect |-> e2,
                                pos |-> st.pos,
                                down |-> st.down \/ fmy > 0,
                                up |-> st.up \/ fmy < 0])
             ELSE ResolveY_NoWriteBack(Tail(rects), fmy, st)

\* the loop of the y-axis pass over the physics rects, in order
RECURSIVE ResolveY(_, _, _)
ResolveY(rects, fmy, st) ==
    IF rects = <<>> THEN st
    ELSE LET rect == Head(rects)
         IN  IF CollideRect(st.entity_rect, rect)
             THEN LET e1 == IF fmy > 0
                            THEN [st.entity_rect EXCEPT !.y = rect.y - st.entity_rect.h]
                            ELSE st.entity_rect
                      e2 == IF fmy < 0
                            THEN [e1 EXCEPT !.y = rect.y + rect.h]
                            ELSE e1
                  IN  ResolveY(Tail(rects), fmy,
                               [entity_rect |-> e2,
                                pos |-> e2.y * Unit,
                                down |-> st.down \/ fmy > 0,
                                up |-> st.up \/ fmy < 0])
             ELSE ResolveY(Tail(rects), fmy, st)

\* hitting a ceiling does not cancel the upward speed
NextVelocityY_DownOnly(vy, coll) ==
    IF coll.down
    THEN 0
    ELSE Min(TERMINAL_VELOCITY, vy + DELTA_VELOCITY_PER_FRAME)

\* gravity is added without the clamp
NextVelocityY_NoClamp(vy, coll) ==
    IF coll.down \/ coll.up
    THEN 0
    ELSE vy + DELTA_VELOCITY_PER_FRAME

\* velocity[1] after the gravity step and the reset on a vertical collision
NextVelocityY(vy, coll) ==
    IF coll.down \/ coll.up
    THEN 0
    ELSE Min(TERMINAL_VELOCITY, vy + DELTA_VELOCITY_PER_FRAME)

\* the entity faces right again as soon as there is no intent
NextFlip_ResetsWhenIdle(cur_flip, mv) ==
    IF mv[1] < 0 THEN TRUE ELSE FALSE

\* self.flip after the two tests of the horizontal intent
NextFlip(cur_flip, mv) ==
    IF mv[1] < 0 THEN TRUE
    ELSE IF mv[1] > 0 THEN FALSE
    ELSE cur_flip

\* the x-axis pass: position[0] += frame_movement[0], then the loop
XPass(tm, pos, fmx) ==
    LET p1 == <<pos[1] + fmx, pos[2]>>
    IN  ResolveX(PhysicsRectsAround(tm, p1), fmx,
                 [entity_rect |-> EntityRect(p1), pos |-> p1[1],
                  right |-> FALSE, left |-> FALSE])

\* the y-axis pass: position[1] += frame_movement[1], then the loop
YPass(tm, pos, fmy) ==
    LET p2 == <<pos[1], pos[2] + fmy>>
    IN  ResolveY(PhysicsRectsAround(tm, p2), fmy,
                 [entity_rect |-> EntityRect(p2), pos |-> p2[2],
                  down |-> FALSE, up |-> FALSE])

\* the flags of the tick before are not reset
UpdateResult_KeepsFlags(vel, cur_flip, cur_animation, mv, xs, ys) ==
    [position |-> <<xs.pos, ys.pos>>,
     velocity |-> <<vel[1], NextVelocityY(vel[2], ys)>>,
     collisions |-> [up |-> ys.up \/ collisions.up,
                     down |-> ys.down \/ collisions.down,
                     right |-> xs.right \/ collisions.right,
                     left |-> xs.left \/ collisions.left],
     flip |-> NextFlip(cur_flip, mv),
     animation |-> AnimationUpdate(cur_animation)]

\* what PhysicsEntity.update leaves behind, given the results of both passes
UpdateResult(vel, cur_flip, cur_animation, mv, xs, ys) ==
    [position |-> <<xs.pos, ys.pos>>,
     velocity |-> <<vel[1], NextVelocityY(vel[2], ys)>>,
     collisions |-> [up |-> ys.up, down |-> ys.down,
                     right |-> xs.right, left |-> xs.left],
     flip |-> NextFlip(cur_flip, mv),
     animation |-> AnimationUpdate(cur_animation)]

YThenResult(tm, pos, vel, cur_flip, cur_animation, mv, xs) ==
    UpdateResult(vel, cur_flip, cur_animation, mv, xs,
                 YPass(tm, <<xs.pos, pos[2]>>, mv[2] + vel[2]))

\* PhysicsEntity.update: the body after one update with the intent mv
PhysicsUpdate(tm, pos, vel, cur_flip, cur_animation, mv) ==
    YThenResult(tm, pos, vel, cur_flip, cur_animation, mv,
                XPass(tm, pos, mv[1] + vel[1]))

----------------------------------------------------------------------------
(* Player (scripts/entities.py) *)

\* the reset runs before the increment
NextAirTime_ResetFirst(cur_air_time, coll) ==
    IF coll.down THEN 1 ELSE cur_air_time + 1

NextAirTime(cur_air_time, coll) ==
    IF coll.down THEN 0 ELSE cur_air_time + 1

\* run is tested before jump
SelectAction_RunFirst(new_air_time, mv) ==
    IF mv[1] # 0 THEN "run"
    ELSE IF new_air_time > JUMP_ANIMATION_THRESHOLD THEN "jump"
    ELSE "idle"

\* the jump label is chosen from air_time = JUMP_ANIMATION_THRESHOLD on
SelectAction_AtThreshold(new_air_time, mv) ==
    IF new_air_time >= JUMP_ANIMATION_THRESHOLD THEN "jump"
    ELSE IF mv[1] # 0 THEN "run"
    ELSE "idle"

\* the action label chosen at the end of Player.update
SelectAction(new_air_time, mv) ==
    IF new_air_time > JUMP_ANIMATION_THRESHOLD THEN "jump"
    ELSE IF mv[1] # 0 THEN "run"
    ELSE "idle"

\* the action is selected first and the animation it leaves is advanced
PlayerResultFrom_SelectFirst(asts, cur_action, cur_air_time, cur_jump_count, mv, b, a) ==
    [position |-> b.position,
     velocity |-> b.velocity,
     collisions |-> b.collisions,
     flip |-> b.flip,
     air_time |-> a,
     jump_count |-> IF b.collisions.down THEN 0 ELSE cur_jump_count,
     set |-> IF SelectAction(a, mv) # cur_action
             THEN [action |-> SelectAction(a, mv),
                   animation |-> AnimationUpdate(
                       AnimationCopy(asts[AssetKey("player", SelectAction(a, mv))]))]
             ELSE [action |-> cur_action, animation |-> b.animation]]

\* what Player.update leaves behind, given the result b of the physics update
PlayerResultFrom(asts, cur_action, cur_air_time, cur_jump_count, mv, b, a) ==
    [position |-> b.position,
     velocity |-> b.velocity,
     collisions |-> b.collisions,
     flip |-> b.flip,
     air_time |-> a,
     jump_count |-> IF b.collisions.down THEN 0 ELSE cur_jump_count,
     set |-> SetAction(asts, cur_action, b.animation, SelectAction(a, mv))]

PlayerAfterPhysics(asts, cur_action, cur_air_time, cur_jump_count, mv, b) ==
    PlayerResultFrom(asts, cur_action, cur_air_time, cur_jump_count, mv, b,
                     NextAirTime(cur_air_time, b.collisions))

\* the player after Player.update(tilemap, movement) in the current state
PlayerResult(mv) ==
    PlayerAfterPhysics(assets, action, air_time, jump_count, mv,
        PhysicsUpdate(tilemap, position, velocity, flip, animation, mv))

\* Player.update(tilemap, movement)
PlayerUpdate(mv) ==
    \E r \in {PlayerResult(mv)} :
        /\ position' = r.position
        /\ velocity' = r.velocity
        /\ collisions' = r.collisions
        /\ flip' = r.flip
        /\ air_time' = r.air_time
        /\ jump_count' = r.jump_count
        /\ action' = r.set.action
        /\ animation' = r.set.animation

\* the movement argument Game.run passes: (movement[1] - movement[0], 0)
Intent(m) ==
    <<((IF m[2] THEN 1 ELSE 0) - (IF m[1] THEN 1 ELSE 0)) * Unit, 0>>

----------------------------------------------------------------------------
(* Game.run (game.py): camera and events *)

\* pygame Rect.centerx / centery
CenterX(r) == r.x + (r.w \div 2)
CenterY(r) == r.y + (r.h \div 2)

\* the scroll jumps to the target: the division is left out
ScrollAxis_Snap(s, target, half) ==
    s + ((target - half) * ScrollUnit - s)

\* scroll += ((target - display / 2) - scroll) / SCROLL_STEP, one axis,
\* target and half in pixels, s in thousandths
ScrollAxis(s, target, half) ==
    s + RoundDiv((target - half) * ScrollUnit - s, SCROLL_STEP)

CameraUpdate(s, pos) ==
    LET r == EntityRect(pos)
    IN  <<ScrollAxis(s[1], CenterX(r), DISPLAY_SIZE[1] \div 2),
          ScrollAxis(s[2], CenterY(r), DISPLAY_SIZE[2] \div 2)>>

RenderScroll(s) == <<Trunc(s[1], ScrollUnit), Trunc(s[2], ScrollUnit)>>

\* the events that change Game.movement
MoveEvents ==
    {"KEYDOWN_LEFT", "KEYDOWN_RIGHT", "KEYUP_LEFT", "KEYUP_RIGHT",
     "JOYHAT_LEFT", "JOYHAT_RIGHT", "JOYHAT_CENTER",
     "JOYAXIS_LEFT", "JOYAXIS_RIGHT", "JOYAXIS_CENTER"}

\* the events that overwrite the vertical velocity
JumpEvents == {"KEYDOWN_UP", "JOYBUTTONDOWN_0"}

\* Game.movement after one movement event
MovementAfter(m, e) ==
    CASE e = "KEYDOWN_LEFT"   -> <<TRUE, m[2]>>
      [] e = "KEYDOWN_RIGHT"  -> <<m[1], TRUE>>
      [] e = "KEYUP_LEFT"     -> <<FALSE, m[2]>>
      [] e = "KEYUP_RIGHT"    -> <<m[1], FALSE>>
      [] e = "JOYHAT_LEFT"    -> <<TRUE, m[2]>>
      [] e = "JOYHAT_RIGHT"   -> <<m[1], TRUE>>
      [] e = "JOYHAT_CENTER"  -> <<FALSE, FALSE>>
      [] e = "JOYAXIS_LEFT"   -> <<TRUE, FALSE>>
      [] e = "JOYAXIS_RIGHT"  -> <<FALSE, TRUE>>
      [] e = "JOYAXIS_CENTER" -> <<FALSE, FALSE>>

\* the loop body in the order input, physics, camera, render
NextPc_InputFirst(p) ==
    CASE p = "events"        -> "player_update"
      [] p = "player_update" -> "camera"
      [] p = "camera"        -> "render_world"
      [] p = "render_world"  -> "player_render"
      [] p = "player_render" -> "events"

\* the loop body of Game.run in statement order
NextPc(p) ==
    CASE p = "camera"        -> "render_world"
      [] p = "render_world"  -> "player_update"
      [] p = "player_update" -> "player_render"
      [] p = "player_render" -> "events"
      [] p = "events"        -> "camera"

\* a movement event handled by the event loop
MoveEvent(e) ==
    /\ movement' = MovementAfter(movement, e)
    /\ UNCHANGED <<assets, bodyVars, scroll, render_scroll, jumps,
                   ticks, anim, anim_k, worldVars, toolVars>>

\* the jump speed is added to the vertical velocity
JumpEvent_AddsSpeed ==
    /\ jumps < MaxJumps
    /\ velocity' = <<velocity[1], velocity[2] + JUMP_SPEED>>
    /\ jumps' = jumps + 1
    /\ UNCHANGED <<assets, position, collisions, action, animation,
                   flip, air_time, jump_count, movement, scroll,
                   render_scroll, ticks, anim, anim_k, worldVars, toolVars>>

\* a jump event: self.player.velocity[1] = JUMP_SPEED
JumpEvent ==
    /\ jumps < MaxJumps
    /\ velocity' = <<velocity[1], JUMP_SPEED>>
    /\ jumps' = jumps + 1
    /\ UNCHANGED <<assets, position, collisions, action, animation,
                   flip, air_time, jump_count, movement, scroll,
                   render_scroll, ticks, anim, anim_k, worldVars, toolVars>>

\* self.player.update(tilemap=self.tilemap, movement=(...))
UpdatePlayer ==
    /\ PlayerUpdate(Intent(movement))
    /\ ticks' = ticks + 1
    /\ UNCHANGED <<assets, movement, scroll, render_scroll, jumps,
                   anim, anim_k, worldVars, toolVars>>

----------------------------------------------------------------------------
(* The state after construction *)

IdleAnim == Animation(Images("anim", 1), 1, TRUE)

\* Player(game, position, size) in the world of Tilemap(game, tile_size=16)
InitBody(spawn, body_size) ==
    /\ assets = InitialAssets
    /\ position = <<spawn[1] * Unit, spawn[2] * Unit>>
    /\ velocity = <<0, 0>>
    /\ collisions = NoCollisions
    /\ action = "idle"
    /\ animation = AnimationCopy(InitialAssets[AssetKey("player", "idle")])
    /\ flip = FALSE
    /\ air_time = 0
    /\ jump_count = "unset"
    /\ movement = <<FALSE, FALSE>>
    /\ scroll = <<0, 0>>
    /\ render_scroll = <<0, 0>>
    /\ pc = "camera"
    /\ jumps = 0
    /\ ticks = 0
    /\ size = body_size
    /\ tilemap = InitialTilemap
    /\ offgrid_tiles = <<>>
    /\ raised = "none"

\* Player(game=self, position=spawn, size=(8, 15))
InitAt(spawn) == InitBody(spawn, PlayerSize)

\* no free-standing Animation is driven beside the game
NoAnim == anim = IdleAnim /\ anim_k = 0

\* no Editor object exists and no Tilemap method is being exercised
NoEditor == [running |-> FALSE]
NoQuery == [method |-> "none"]
NoTools == editor = NoEditor /\ query = NoQuery

----------------------------------------------------------------------------
(* Spec: the game loop of Game.run from the state Game.__init__ builds *)

Init == InitAt(PlayerSpawn) /\ NoAnim /\ NoTools

LoopCamera ==
    /\ pc = "camera"
    /\ scroll' = CameraUpdate(scroll, position)
    /\ render_scroll' = RenderScroll(scroll')
    /\ pc' = NextPc(pc)
    /\ UNCHANGED <<assets, bodyVars, movement, jumps, ticks, anim, anim_k, worldVars, toolVars>>

\* clouds and tilemap are drawn with render_scroll; drawing changes no state
LoopRenderWorld ==
    /\ pc = "render_world"
    /\ pc' = NextPc(pc)
    /\ UNCHANGED <<assets, bodyVars, movement, scroll, render_scroll,
                   jumps, ticks, anim, anim_k, worldVars, toolVars>>

LoopPlayerUpdate ==
    /\ pc = "player_update"
    /\ ticks < MaxLoopTicks
    /\ UpdatePlayer
    /\ pc' = NextPc(pc)

LoopPlayerRender ==
    /\ pc = "player_render"
    /\ pc' = NextPc(pc)
    /\ UNCHANGED <<assets, bodyVars, movement, scroll, render_scroll,
                   jumps, ticks, anim, anim_k, worldVars, toolVars>>

LoopMoveEvent ==
    /\ pc = "events"
    /\ \E e \in MoveEvents : MoveEvent(e)
    /\ UNCHANGED pc

LoopJumpEvent ==
    /\ pc = "events"
    /\ JumpEvent
    /\ UNCHANGED pc

\* pygame.QUIT: pygame.quit(); sys.exit()
LoopQuit ==
    /\ pc = "events"
    /\ pc' = "exit"
    /\ UNCHANGED <<assets, bodyVars, movement, scroll, render_scroll,
                   jumps, ticks, anim, anim_k, worldVars, toolVars>>

\* the event queue is drained; the display is presented; the clock ticks
LoopEndEvents ==
    /\ pc = "events"
    /\ pc' = NextPc(pc)
    /\ UNCHANGED <<assets, bodyVars, movement, scroll, render_scroll,
                   jumps, ticks, anim, anim_k, worldVars, toolVars>>

Next ==
    \/ LoopCamera
    \/ LoopRenderWorld
    \/ LoopPlayerUpdate
    \/ LoopPlayerRender
    \/ LoopMoveEvent
    \/ LoopJumpEvent
    \/ LoopQuit
    \/ LoopEndEvents

Spec == Init /\ [][Next]_vars

----------------------------------------------------------------------------
(* SpecBody: a Player driven by updates and input events, built at one of  *)
(* a few places of the initial world                                       *)

\* the spawn of Game.__init__, on the grass right of the stone column,
\* left of the grass row at its height, below the grass row
BodySpawns == {PlayerSpawn, <<178, 145>>, <<38, 170>>, <<60, 178>>}

BodyInit == NoAnim /\ NoTools /\ \E spawn \in BodySpawns : InitAt(spawn)

BodyUpdate ==
    /\ ticks < MaxBodyTicks
    /\ UpdatePlayer
    /\ UNCHANGED pc

BodyMoveEvent ==
    /\ \E e \in MoveEvents : MoveEvent(e)
    /\ UNCHANGED pc

BodyJumpEvent ==
    /\ JumpEvent
    /\ UNCHANGED pc

BodyNext == BodyUpdate \/ BodyMoveEvent \/ BodyJumpEvent

SpecBody == BodyInit /\ [][BodyNext]_vars

----------------------------------------------------------------------------
(* SpecFall: a Player built left of the grass row, where nothing is below  *)

FallSpawn == <<20, 50>>

FallInit == InitAt(FallSpawn) /\ NoAnim /\ NoTools

FallUpdate ==
    /\ ticks < MaxFallTicks
    /\ UpdatePlayer
    /\ UNCHANGED pc

FallMoveEvent ==
    /\ \E e \in MoveEvents : MoveEvent(e)
    /\ UNCHANGED pc

FallNext == FallUpdate \/ FallMoveEvent

SpecFall == FallInit /\ [][FallNext]_vars

----------------------------------------------------------------------------
(* SpecAnim: one Animation instance, updated and copied *)

gameVarsNoWorld == <<assets, bodyVars, movement, scroll, render_scroll, pc,
                     jumps, ticks>>

gameVars == <<gameVarsNoWorld, worldVars>>

\* Animation(images, image_duration, loop)
AnimInit ==
    /\ InitAt(PlayerSpawn)
    /\ NoTools
    /\ anim_k = 0
    /\ \E n \in 1..MaxImages, d \in 1..MaxDuration, l \in BOOLEAN :
          anim = Animation(Images("anim", n), d, l)

\* anim.update()
AnimUpdateStep ==
    /\ anim_k < MaxUpdates
    /\ anim' = AnimationUpdate(anim)
    /\ anim_k' = anim_k + 1
    /\ UNCHANGED <<gameVars, toolVars>>

\* anim = anim.copy()
AnimCopyStep ==
    /\ anim' = AnimationCopy(anim)
    /\ anim_k' = 0
    /\ UNCHANGED <<gameVars, toolVars>>

AnimNext == AnimUpdateStep \/ AnimCopyStep

SpecAnim == AnimInit /\ [][AnimNext]_vars

----------------------------------------------------------------------------
(* SpecSize: a Player built with the size of the game or with a size that  *)
(* has a component <= 0, then updated                                      *)

BodySizes == {PlayerSize, <<0, 15>>, <<8, 0>>, <<-8, 15>>, <<8, -15>>, <<0, 0>>}

\* the spawn of the game, and left of the grass row at its height
SizeInit ==
    /\ NoAnim
    /\ NoTools
    /\ \E spawn \in {PlayerSpawn, <<38, 170>>}, body_size \in BodySizes :
          InitBody(spawn, body_size)

SizeUpdate ==
    /\ ticks < MaxSizeTicks
    /\ UpdatePlayer
    /\ UNCHANGED pc

SizeMoveEvent ==
    /\ \E e \in MoveEvents : MoveEvent(e)
    /\ UNCHANGED pc

SizeNext == SizeUpdate \/ SizeMoveEvent

SpecSize == SizeInit /\ [][SizeNext]_vars

----------------------------------------------------------------------------
(* SpecTiles: one Tilemap object whose store is written the way the        *)
(* initialisation and the editor write it, and whose methods are called    *)
(* one at a time                                                           *)

\* list(self.assets) of the Editor: the tile types, in insertion order
TILE_GROUPS == <<"decor", "grass", "stone", "large_decor">>

TileVariants == 0..(VariantsPerGroup - 1)

\* Editor.variants_count: the number of images of each tile directory; the
\* directories are asset data and differ in size
variants_count ==
    ("decor" :> VariantsPerGroup + 1) @@ ("grass" :> VariantsPerGroup)
    @@ ("stone" :> VariantsPerGroup) @@ ("large_decor" :> VariantsPerGroup + 2)

\* cells the store is written at: left of and above the origin, on top of
\* the grass row, far from every initial tile
HarnessCells == {<<-1, -1>>, <<4, 9>>, <<15, 3>>}

\* a decoration kept off the grid, at a pixel position
OffgridDecor == Tile("large_decor", 0, <<243, 50>>)

\* positions (tenths of a pixel) the neighbourhood methods are called with
QueryPositions ==
    {<<-10, -10>>, <<-5, 5>>, <<0, 0>>, <<-160, -161>>, <<-330, -10>>,
     <<500, 1450>>, <<1650, 1600>>, <<2450, 550>>, <<800, 1599>>}

\* surface sizes and integer offsets render is called with
RenderSizes == {<<32, 32>>, <<40, 24>>}
RenderOffsets ==
    {<<0, 0>>, <<-20, -20>>, <<-5, -7>>, <<40, 140>>, <<-16, -32>>, <<230, 40>>}

TilesInit ==
    /\ InitAt(PlayerSpawn)
    /\ NoAnim
    /\ editor = NoEditor
    /\ query = NoQuery

\* a decoration is appended to offgrid_tiles
TilesAddOffgrid ==
    /\ query = NoQuery
    /\ offgrid_tiles = <<>>
    /\ offgrid_tiles' = <<OffgridDecor>>
    /\ query' = NoQuery
    /\ UNCHANGED <<gameVarsNoWorld, size, tilemap, raised, anim, anim_k, editor>>

\* tilemap[key] = tile
TilesPlace ==
    /\ query = NoQuery
    /\ \E c \in HarnessCells, g \in 1..Len(TILE_GROUPS), v \in TileVariants :
          tilemap' = PlaceTile(tilemap, c, TILE_GROUPS[g], v)
    /\ query' = NoQuery
    /\ UNCHANGED <<gameVarsNoWorld, size, offgrid_tiles, raised, anim, anim_k,
                   editor>>

\* if key in tilemap: del tilemap[key]
TilesRemove ==
    /\ query = NoQuery
    /\ \E c \in HarnessCells :
          /\ Key(c[1], c[2]) \in DOMAIN tilemap
          /\ tilemap' = DelTile(tilemap, Key(c[1], c[2]))
    /\ query' = NoQuery
    /\ UNCHANGED <<gameVarsNoWorld, size, offgrid_tiles, raised, anim, anim_k,
                   editor>>

\* tilemap.tiles_around(p)
TilesAroundCall ==
    /\ query = NoQuery
    /\ \E p \in QueryPositions :
          query' = [method |-> "tiles_around", position |-> p,
                    result |-> TilesAround(tilemap, p)]
    /\ UNCHANGED <<gameVars, anim, anim_k, editor>>

\* tilemap.physics_rects_around(p)
PhysicsRectsCall ==
    /\ query = NoQuery
    /\ \E p \in QueryPositions :
          query' = [method |-> "physics_rects_around", position |-> p,
                    tiles |-> TilesAround(tilemap, p),
                    result |-> PhysicsRectsAround(tilemap, p)]
    /\ UNCHANGED <<gameVars, anim, anim_k, editor>>

\* tilemap.render(surface, offset)
RenderCall ==
    /\ query = NoQuery
    /\ \E sz \in RenderSizes, off \in RenderOffsets :
          query' = [method |-> "render", surface_size |-> sz, offset |-> off,
                    result |-> Render(tilemap, offgrid_tiles, sz, off)]
    /\ UNCHANGED <<gameVars, anim, anim_k, editor>>

\* the caller is done with the result of the call
TilesReturn ==
    /\ query # NoQuery
    /\ query' = NoQuery
    /\ UNCHANGED <<gameVars, anim, anim_k, editor>>

TilesNext ==
    \/ TilesAddOffgrid
    \/ TilesPlace
    \/ TilesRemove
    \/ TilesAroundCall
    \/ PhysicsRectsCall
    \/ RenderCall
    \/ TilesReturn

SpecTiles == TilesInit /\ [][TilesNext]_vars

----------------------------------------------------------------------------
(* SpecEditor: the loop of Editor.run from the state Editor.__init__       *)
(* builds.  pc is "camera" at the top of a pass, "preview" once the tile   *)
(* under the mouse was placed and removed, "events" in the event loop.     *)
(* Editor.movement is written by the arrow keys and read by nothing (the   *)
(* scroll is never changed); it is not kept.                               *)

RENDER_SCALE == 2

\* screen positions of the mouse: over the grass tile (4, 10), and over the
\* empty cell (15, 3), which has no tile around it
MousePositions == {<<141, 330>>, <<485, 100>>}

\* (int((mouse.x / 2.0 + scroll.x) // 16), int((mouse.y / 2.0 + scroll.y) // 16))
TilePosition(mouse, ed_scroll) ==
    <<(mouse[1] + RENDER_SCALE * ed_scroll[1]) \div (RENDER_SCALE * TileSize),
      (mouse[2] + RENDER_SCALE * ed_scroll[2]) \div (RENDER_SCALE * TileSize)>>

\* the tile is deleted without asking whether it is there
EditorRemove_NoGuard(tm, tile_position) ==
    LET tile_location == Key(tile_position[1], tile_position[2])
    IN  IF tile_location \in DOMAIN tm
        THEN [tilemap |-> DelTile(tm, tile_location), raised |-> "none"]
        ELSE [tilemap |-> tm, raised |-> "KeyError"]

\* if tile_location in tilemap: del tilemap[tile_location]
EditorRemove(tm, tile_position) ==
    LET tile_location == Key(tile_position[1], tile_position[2])
    IN  IF tile_location \in DOMAIN tm
        THEN [tilemap |-> DelTile(tm, tile_location), raised |-> "none"]
        ELSE [tilemap |-> tm, raised |-> "none"]

\* the removal runs before the placement
EditorPass_RemoveFirst(tm, ed) ==
    LET tile_position == TilePosition(ed.mouse, ed.scroll)
        removed == IF ed.right_clicking
                   THEN EditorRemove(tm, tile_position)
                   ELSE [tilemap |-> tm, raised |-> "none"]
    IN  IF ed.clicking
        THEN [tilemap |-> PlaceTile(removed.tilemap, tile_position,
                                    TILE_GROUPS[ed.tile_group + 1],
                                    ed.tile_variant),
              raised |-> removed.raised]
        ELSE removed

\* the tile under the mouse is placed if clicking, then removed if
\* right_clicking
EditorPass(tm, ed) ==
    LET tile_position == TilePosition(ed.mouse, ed.scroll)
        placed == IF ed.clicking
                  THEN PlaceTile(tm, tile_position,
                                 TILE_GROUPS[ed.tile_group + 1], ed.tile_variant)
                  ELSE tm
    IN  IF ed.right_clicking
        THEN EditorRemove(placed, tile_position)
        ELSE [tilemap |-> placed, raised |-> "none"]

\* Editor.__init__, with the mouse somewhere over the window
EditorInit ==
    /\ InitAt(PlayerSpawn)
    /\ NoAnim
    /\ query = NoQuery
    /\ \E m \in MousePositions :
          editor = [running |-> TRUE, scroll |-> <<0, 0>>, tile_group |-> 0,
                    tile_variant |-> 0, clicking |-> FALSE,
                    right_clicking |-> FALSE, shift |-> FALSE, mouse |-> m]

\* lines 75-123 of one pass; query keeps the locals of the pass
EditorFrame ==
    /\ pc = "camera"
    /\ raised = "none"
    /\ \E r \in {EditorPass(tilemap, editor)} :
          /\ tilemap' = r.tilemap
          /\ raised' = r.raised
    /\ query' = [method |-> "pass",
                 tile_position |-> TilePosition(editor.mouse, editor.scroll),
                 found |-> Key(TilePosition(editor.mouse, editor.scroll)[1],
                               TilePosition(editor.mouse, editor.scroll)[2])
                              \in DOMAIN tilemap]
    /\ pc' = "preview"
    /\ UNCHANGED <<assets, bodyVars, movement, scroll, render_scroll, jumps,
                   ticks, anim, anim_k, size, offgrid_tiles, editor>>

\* the selected tile is drawn in the corner; the locals of the pass are dead
EditorPreview ==
    /\ pc = "preview"
    /\ raised = "none"
    /\ pc' = "events"
    /\ query' = NoQuery
    /\ UNCHANGED <<assets, bodyVars, movement, scroll, render_scroll, jumps,
                   ticks, anim, anim_k, worldVars, editor>>

\* the mouse is moved; the next pass reads pygame.mouse.get_pos()
EditorMouseMove ==
    /\ pc = "events"
    /\ \E m \in MousePositions : editor' = [editor EXCEPT !.mouse = m]
    /\ UNCHANGED <<gameVars, anim, anim_k, query>>

\* a change of group keeps the variant that was selected
EditorButtonDown_KeepsVariant(ed, b) ==
    LET e1 == IF b = 1 THEN [ed EXCEPT !.clicking = TRUE] ELSE ed
        e2 == IF b = 3 THEN [e1 EXCEPT !.right_clicking = TRUE] ELSE e1
        count == variants_count[TILE_GROUPS[e2.tile_group + 1]]
    IN  IF e2.shift
        THEN IF b = 4
             THEN [e2 EXCEPT !.tile_variant = (e2.tile_variant - 1) % count]
             ELSE IF b = 5
             THEN [e2 EXCEPT !.tile_variant = (e2.tile_variant + 1) % count]
             ELSE e2
        ELSE IF b = 4
             THEN [e2 EXCEPT !.tile_group = (e2.tile_group - 1) % Len(TILE_GROUPS)]
             ELSE IF b = 5
             THEN [e2 EXCEPT !.tile_group = (e2.tile_group + 1) % Len(TILE_GROUPS)]
             ELSE e2

\* pygame.MOUSEBUTTONDOWN with event.button = b; 4 and 5 are the mouse wheel
\* turned up and down
EditorButtonDown(ed, b) ==
    LET e1 == IF b = 1 THEN [ed EXCEPT !.clicking = TRUE] ELSE ed
        e2 == IF b = 3 THEN [e1 EXCEPT !.right_clicking = TRUE] ELSE e1
        count == variants_count[TILE_GROUPS[e2.tile_group + 1]]
    IN  IF e2.shift
        THEN IF b = 4
             THEN [e2 EXCEPT !.tile_variant = (e2.tile_variant - 1) % count]
             ELSE IF b = 5
             THEN [e2 EXCEPT !.tile_variant = (e2.tile_variant + 1) % count]
             ELSE e2
        ELSE IF b = 4
             THEN [e2 EXCEPT !.tile_group = (e2.tile_group - 1) % Len(TILE_GROUPS),
                             !.tile_variant = 0]
             ELSE IF b = 5
             THEN [e2 EXCEPT !.tile_group = (e2.tile_group + 1) % Len(TILE_GROUPS),
                             !.tile_variant = 0]
             ELSE e2

\* pygame.MOUSEBUTTONUP with event.button = b
EditorButtonUp(ed, b) ==
    LET e1 == IF b = 1 THEN [ed EXCEPT !.clicking = FALSE] ELSE ed
    IN  IF b = 3 THEN [e1 EXCEPT !.right_clicking = FALSE] ELSE e1

\* pygame.KEYDOWN (down = TRUE) or pygame.KEYUP of a key
EditorKey(ed, key, down) ==
    IF key \in {"K_LSHIFT", "K_RSHIFT"} THEN [ed EXCEPT !.shift = down] ELSE ed

EditorMouseEvent ==
    /\ pc = "events"
    /\ \E b \in 1..5 :
          \/ editor' = EditorButtonDown(editor, b)
          \/ editor' = EditorButtonUp(editor, b)
    /\ UNCHANGED <<gameVars, anim, anim_k, query>>

EditorKeyEvent ==
    /\ pc = "events"
    /\ \E key \in {"K_LEFT", "K_RIGHT", "K_UP", "K_DOWN", "K_LSHIFT", "K_RSHIFT"},
          down \in BOOLEAN :
          editor' = EditorKey(editor, key, down)
    /\ UNCHANGED <<gameVars, anim, anim_k, query>>

\* pygame.QUIT: sys.exit()
EditorQuit ==
    /\ pc = "events"
    /\ pc' = "exit"
    /\ UNCHANGED <<assets, bodyVars, movement, scroll, render_scroll, jumps,
                   ticks, anim, anim_k, worldVars, toolVars>>

\* the event queue is drained; the display is presented; the clock ticks
EditorEndEvents ==
    /\ pc = "events"
    /\ pc' = "camera"
    /\ UNCHANGED <<assets, bodyVars, movement, scroll, render_scroll, jumps,
                   ticks, anim, anim_k, worldVars, toolVars>>

EditorNext ==
    \/ EditorFrame
    \/ EditorPreview
    \/ EditorMouseMove
    \/ EditorMouseEvent
    \/ EditorKeyEvent
    \/ EditorQuit
    \/ EditorEndEvents

SpecEditor == EditorInit /\ [][EditorNext]_vars

----------------------------------------------------------------------------
(* SpecKeys: a tile is written under the key of one grid coordinate and    *)
(* the store is asked for the key of another                               *)

KeysInit == TilesInit

\* the writer: tilemap[f"{x};{y}"] = tile
KeysWrite ==
    /\ query = NoQuery
    /\ \E x \in (-KeyMax)..KeyMax, y \in (-KeyMax)..KeyMax :
          /\ tilemap' = PlaceTile(tilemap, <<x, y>>, "decor", 0)
          /\ query' = [method |-> "written", coord |-> <<x, y>>,
                       loc |-> Key(x, y)]
    /\ UNCHANGED <<gameVarsNoWorld, size, offgrid_tiles, raised, anim, anim_k,
                   editor>>

\* the reader: check_loc = str(x) + ";" + str(y); check_loc in tilemap
KeysLookup ==
    /\ query.method = "written"
    /\ \E x \in (-KeyMax)..KeyMax, y \in (-KeyMax)..KeyMax :
          LET check_loc == Key(x, y)
          IN  query' = [method |-> "lookup", coord |-> query.coord,
                        loc |-> query.loc, asked |-> <<x, y>>,
                        check_loc |-> check_loc,
                        found |-> check_loc \in DOMAIN tilemap,
                        tiles |-> IF check_loc \in DOMAIN tilemap
                                  THEN <<tilemap[check_loc]>> ELSE <<>>]
    /\ UNCHANGED <<gameVars, anim, anim_k, editor>>

KeysNext == KeysWrite \/ KeysLookup

SpecKeys == KeysInit /\ [][KeysNext]_vars

----------------------------------------------------------------------------
(* SpecCamera: the camera lines of Game.run, pass after pass, behind a     *)
(* player that stays where it was built                                    *)

\* player positions whose rectangle centre asks for the scroll (300, 300),
\* (300, -63) and, at the spawn of the game, (-106, -63)
CameraTargets == {<<456, 413>>, <<456, 50>>, PlayerSpawn}

CameraInit == NoAnim /\ NoTools /\ \E spawn \in CameraTargets : InitAt(spawn)

\* the rest of a pass in which the player is not moved
CameraRest ==
    /\ pc = "render_world"
    /\ pc' = "camera"
    /\ UNCHANGED <<assets, bodyVars, movement, scroll, render_scroll,
                   jumps, ticks, anim, anim_k, worldVars, toolVars>>

CameraNext == LoopCamera \/ CameraRest

SpecCamera == CameraInit /\ [][CameraNext]_vars

----------------------------------------------------------------------------
(* SpecCopy: the player of the game is updated while, beside it, one       *)
(* Animation instance is updated and replaced by its own copy              *)

CopyInit ==
    /\ InitAt(PlayerSpawn)
    /\ NoTools
    /\ anim_k = 0
    /\ \E n \in 1..2, d \in 1..2, l \in BOOLEAN :
          anim = Animation(Images("anim", n), d, l)

\* anim.update()
CopySourceUpdate ==
    /\ anim_k < MaxCopyUpdates
    /\ anim' = AnimationUpdate(anim)
    /\ anim_k' = anim_k + 1
    /\ UNCHANGED <<gameVars, toolVars>>

CopyNext == BodyUpdate \/ BodyMoveEvent \/ CopySourceUpdate \/ AnimCopyStep

SpecCopy == CopyInit /\ [][CopyNext]_vars

----------------------------------------------------------------------------
(* SpecPlay: the player of the game from its spawn, driven by the stick of *)
(* a joystick (one event sets the horizontal intent to -1, +1 or 0), by    *)
(* updates, and by the jump button once the player has touched the        *)
(* ground.  air_time counts the updates since the last down collision and  *)
(* ticks counts all updates, so air_time < ticks says that some update has *)
(* ended with collisions.down.                                             *)

PlayUpdate ==
    /\ ticks < MaxPlayTicks
    /\ UpdatePlayer
    /\ UNCHANGED pc

\* an event of joystick axis 0: left, right or back to the centre
PlayMoveEvent ==
    /\ \E e \in {"JOYAXIS_LEFT", "JOYAXIS_RIGHT", "JOYAXIS_CENTER"} :
          MoveEvent(e)
    /\ UNCHANGED pc

PlayJumpEvent ==
    /\ jumps < MaxPlayJumps
    /\ air_time < ticks
    /\ JumpEvent
    /\ UNCHANGED pc

PlayNext == PlayUpdate \/ PlayMoveEvent \/ PlayJumpEvent

SpecPlay == Init /\ [][PlayNext]_vars

----------------------------------------------------------------------------
(* SpecLand: the player of the game from its spawn, updated tick after     *)
(* tick while no key is pressed and no joystick is touched.  The loop of   *)
(* Game.run calls player.update in every pass and never blocks, so the     *)
(* update is taken again and again: weak fairness on it.  The update is    *)
(* the only step that counts ticks and it is enabled whenever the counter  *)
(* is below its bound, so the fairness condition is written on the         *)
(* counter.                                                                *)

LandUpdate ==
    /\ ticks < MaxLandTicks
    /\ UpdatePlayer
    /\ UNCHANGED pc

SpecLand == Init /\ [][LandUpdate]_vars

SpecLandLive ==
    SpecLand /\ WF_ticks(ticks < MaxLandTicks /\ ticks' = ticks + 1)

----------------------------------------------------------------------------
(* Properties.  Lengths are written in tenths of a pixel where they are    *)
(* compared with position and velocity: 160 is one tile, 50 is 5 pixels.   *)

\* the player as Player.update writes it
PlayerNow ==
    [position |-> position,
     velocity |-> velocity,
     collisions |-> collisions,
     flip |-> flip,
     air_time |-> air_time,
     jump_count |-> jump_count,
     set |-> [action |-> action, animation |-> animation]]

\* a step in which Player.update ran, with the intent held in movement
IsPlayerUpdate == ticks' = ticks + 1

\* every solid tile of the store, wherever it lies
SolidTiles ==
    {InitialTilemap[k] : k \in {j \in DOMAIN InitialTilemap :
                                   InitialTilemap[j].type \in {"grass", "stone"}}}

\* frame_movement of the update that the current state is about to run
FrameMovement == <<Intent(movement)[1] + velocity[1],
                   Intent(movement)[2] + velocity[2]>>

\* the body rectangle right after position[0] += frame_movement[0]
RectAfterXMove ==
    [x |-> Trunc(position[1] + FrameMovement[1], 10),
     y |-> Trunc(position[2], 10), w |-> 8, h |-> 15]

\* the solid tiles of the whole store that this rectangle overlaps
HitAfterXMove ==
    {t \in SolidTiles : CollideRect(RectAfterXMove, TileRect(t))}

\* C1: an update that moves the body right into exactly one solid tile of
\* column Tg ends with collisions.right, velocity.x unchanged and the right
\* edge on the tile's left edge (position.x + 8 = 16 * Tg); moving left into
\* one ends with collisions.left and position.x = 16 * (Tg + 1).
C1_HorizontalSnap ==
    [][(IsPlayerUpdate /\ Cardinality(HitAfterXMove) = 1) =>
         LET Tg == (CHOOSE t \in HitAfterXMove : TRUE).pos[1]
         IN  /\ FrameMovement[1] > 0 =>
                  /\ collisions'.right
                  /\ velocity'[1] = velocity[1]
                  /\ position'[1] + 80 = Tg * 160
             /\ FrameMovement[1] < 0 =>
                  /\ collisions'.left
                  /\ velocity'[1] = velocity[1]
                  /\ position'[1] = (Tg + 1) * 160]_vars

\* the body was stopped by the left edge of a solid tile whose rows it spans
C1_Witness ==
    /\ collisions.right
    /\ \E t \in SolidTiles :
          /\ position[1] + 80 = t.pos[1] * 160
          /\ Trunc(position[2], 10) < t.pos[2] * 16 + 16
          /\ t.pos[2] * 16 < Trunc(position[2], 10) + 15

\* the body was stopped by the right edge of a solid tile
C1_WitnessLeft ==
    /\ collisions.left
    /\ \E t \in SolidTiles : position[1] = (t.pos[1] + 1) * 160

\* a solid tile whose columns the body at horizontal position x spans
UnderOrOver(t, x) ==
    /\ Trunc(x, 10) < t.pos[1] * 16 + 16
    /\ t.pos[1] * 16 < Trunc(x, 10) + 8

\* C2: an update that ends with collisions.down leaves the bottom edge on
\* the top of a solid tile the body spans and velocity.y = 0; one that ends
\* with collisions.up leaves the top edge on the bottom of such a tile and
\* velocity.y = 0.
C2_VerticalSnap ==
    [][IsPlayerUpdate =>
         /\ collisions'.down =>
              /\ velocity'[2] = 0
              /\ \E t \in SolidTiles :
                    /\ UnderOrOver(t, position'[1])
                    /\ position'[2] + 150 = t.pos[2] * 160
         /\ collisions'.up =>
              /\ velocity'[2] = 0
              /\ \E t \in SolidTiles :
                    /\ UnderOrOver(t, position'[1])
                    /\ position'[2] = (t.pos[2] + 1) * 160]_vars

\* the body hit the grass row from below and lost its upward speed
C2_Witness ==
    /\ collisions.up
    /\ velocity[2] = 0
    /\ position[2] = 11 * 160

\* the body landed on the grass row
C2_WitnessDown ==
    /\ collisions.down
    /\ velocity[2] = 0
    /\ position[2] + 150 = 10 * 160

\* no solid tile in the 3x3 neighbourhood of the body during the update
NothingNear ==
    /\ PhysicsRectsAround(InitialTilemap,
                          <<position[1] + FrameMovement[1], position[2]>>) = <<>>
    /\ PhysicsRectsAround(InitialTilemap,
                          <<position[1] + FrameMovement[1],
                            position[2] + FrameMovement[2]>>) = <<>>

\* C3: with no solid tile near, an update sets velocity.y to
\* min(5, velocity.y + 0.1); velocity.y never exceeds 5, and stays 5 once there.
C3_TerminalVelocity ==
    /\ [](velocity[2] <= 50)
    /\ [][(IsPlayerUpdate /\ NothingNear) =>
            /\ velocity'[2] = (IF velocity[2] + 1 < 50 THEN velocity[2] + 1 ELSE 50)
            /\ velocity[2] = 50 => velocity'[2] = 50]_vars

\* the fall lasted beyond the 50 updates that reach the terminal velocity
C3_Witness ==
    /\ velocity[2] = 50
    /\ air_time > 51
    /\ collisions = NoCollisions

\* C4 as stated: in every pass the physics update is entered from the input
\* phase and the camera update from the physics update.
C4_InputPhysicsCameraOrder ==
    [][/\ pc' = "player_update" => pc = "events"
       /\ pc' = "camera" => pc = "player_update"]_vars

\* C4: every pass of the loop runs camera update, world render, player
\* update (physics, animation, action), player render, input events, in that
\* order; the camera reads the position the previous pass resolved and the
\* player update uses the intent the previous pass's events left.
C4_LoopOrder ==
    [][/\ pc = "camera" =>
            /\ pc' = "render_world"
            /\ scroll' = CameraUpdate(scroll, position)
            /\ render_scroll' = RenderScroll(scroll')
            /\ PlayerNow' = PlayerNow
       /\ pc = "render_world" =>
            /\ pc' = "player_update"
            /\ PlayerNow' = PlayerNow
            /\ scroll' = scroll
       /\ pc = "player_update" =>
            /\ pc' = "player_render"
            /\ PlayerNow' = PlayerResult(Intent(movement))
            /\ movement' = movement
            /\ scroll' = scroll
            /\ render_scroll' = render_scroll
       /\ pc = "player_render" =>
            /\ pc' = "events"
            /\ PlayerNow' = PlayerNow
       /\ pc = "events" => pc' \in {"events", "camera", "exit"}]_vars

\* in a later pass the player has been moved by an intent that the events of
\* an earlier pass left, and is drawn with the scroll computed before the move
C4_Witness ==
    /\ pc = "player_render"
    /\ air_time >= 2
    /\ position[1] # PlayerSpawn[1] * 10
    /\ scroll # <<0, 0>>

C6_AirTime ==
    [][IsPlayerUpdate =>
         /\ air_time' = (IF collisions'.down THEN 0 ELSE air_time + 1)
         /\ (air_time' = 0) <=> collisions'.down
         /\ collisions'.down => jump_count' = 0]_vars

\* a landing after some ticks in the air
C6_Witness ==
    /\ collisions.down
    /\ air_time = 0
    /\ jump_count = 0
    /\ ticks > 1

\* C7: an update that keeps the action label keeps the animation instance
\* (its frame goes on from where it was); one that changes the label leaves a
\* fresh copy of the new action's template at frame 0.
C7_SetAction ==
    [][IsPlayerUpdate =>
         IF action' = action
         THEN animation' = AnimationUpdate(animation)
         ELSE /\ animation'.frame = 0
              /\ animation'.done = FALSE
              /\ animation'.images = assets[AssetKey("player", action')].images
              /\ animation'.image_duration =
                    assets[AssetKey("player", action')].image_duration]_vars

\* idle, then one update as run, then idle again: the idle animation is back
\* at frame 0 after two updates
C7_Witness ==
    /\ action = "idle"
    /\ animation.frame = 0
    /\ air_time = 2
    /\ jump_count = "unset"

\* C8 as stated: in a non-looping Animation done becomes true only in an
\* update whose frame + 1 exceeds total_frames - 1.
C8_DoneOnlyOnClamp ==
    [][(AnimUpdateStep /\ ~anim.loop) =>
         /\ anim'.frame = (IF anim.frame + 1 <= anim.total_animation_frames - 1
                           THEN anim.frame + 1
                           ELSE anim.total_animation_frames - 1)
         /\ anim'.done <=>
               (anim.done \/ anim.frame + 1 > anim.total_animation_frames - 1)]_vars

\* C8: in a non-looping Animation an update sets frame to
\* min(frame + 1, total_frames - 1) and sets done as soon as the new frame is
\* total_frames - 1, that is in the update with frame + 1 >= total_frames - 1.
C8_DoneOnLastFrame ==
    [][(AnimUpdateStep /\ ~anim.loop) =>
         /\ anim'.frame = (IF anim.frame + 1 <= anim.total_animation_frames - 1
                           THEN anim.frame + 1
                           ELSE anim.total_animation_frames - 1)
         /\ anim'.done <=>
               (anim.done \/ anim.frame + 1 >= anim.total_animation_frames - 1)]_vars

\* the last frame was reached by a plain increment and done is already set
C8_Witness ==
    /\ ~anim.loop
    /\ anim.total_animation_frames >= 2
    /\ anim_k = anim.total_animation_frames - 1
    /\ anim.frame = anim_k
    /\ anim.done

\* C9: 0 <= frame < image_duration * len(images) always, looping or not, and
\* the index img() reads is an index of the image sequence.
C9_FrameInRange ==
    /\ 0 <= anim.frame
    /\ anim.frame < anim.image_duration * Len(anim.images)
    /\ (anim.frame \div anim.image_duration) + 1 \in DOMAIN anim.images
    /\ ImgIndex(anim) = anim.frame \div anim.image_duration

\* a non-looping animation held on its last frame by the clamp
C9_Witness ==
    /\ ~anim.loop
    /\ anim_k > anim.image_duration * Len(anim.images)
    /\ anim.frame = anim.image_duration * Len(anim.images) - 1

\* C10: a looping Animation of N images of duration D has, after k updates,
\* frame = k mod (N * D) and image index (k mod (N * D)) div D.
C10_LoopingFrame ==
    anim.loop =>
        LET N == Len(anim.images)
            D == anim.image_duration
        IN  /\ anim.frame = anim_k % (N * D)
            /\ ImgIndex(anim) = (anim_k % (N * D)) \div D

\* 3 images of duration 4 after exactly 12 updates: wrapped to frame 0
C10_Witness ==
    /\ anim.loop
    /\ Len(anim.images) = 3
    /\ anim.image_duration = 4
    /\ anim_k = 12
    /\ anim.frame = 0

\* C11: a non-looping Animation of N images of duration D has, after k
\* updates, frame = min(k, N * D - 1); from k = N * D on the frame is N * D - 1,
\* done is true and the image index is N - 1; an update never clears done.
C11_NonLoopingFrame ==
    /\ [](~anim.loop =>
            LET total == anim.image_duration * Len(anim.images)
            IN  /\ anim.frame = Min(anim_k, total - 1)
                /\ anim_k >= total =>
                      /\ anim.frame = total - 1
                      /\ anim.done
                      /\ ImgIndex(anim) = Len(anim.images) - 1)
    /\ [][(AnimUpdateStep /\ ~anim.loop /\ anim.done) => anim'.done]_vars

\* three images of duration 4 after 15 updates: frame 11, done, image 2
C11_Witness ==
    /\ ~anim.loop
    /\ Len(anim.images) = 3
    /\ anim.image_duration = 4
    /\ anim_k = 15
    /\ anim.frame = 11
    /\ anim.done
    /\ ImgIndex(anim) = 2

\* the integer q with q * d <= n < (q + 1) * d
FloorOf(n, d) ==
    LET m == IF n < 0 THEN 1 - n ELSE n + 1
    IN  CHOOSE q \in (-m)..m : q * d <= n /\ n < (q + 1) * d

\* C12: physics_rects_around(p) returns, in order, one rectangle per tile
\* of tiles_around(p) whose type is grass or stone, of size 16 x 16 with its
\* corner at the grid position times 16, and none for any other tile, on or
\* off the grid.
C12_PhysicsRects ==
    query.method = "physics_rects_around" =>
        LET t == query.tiles
            r == query.result
            solid == {i \in 1..Len(t) : t[i].type \in {"grass", "stone"}}
        IN  /\ Len(r) = Cardinality(solid)
            /\ \A j \in 1..Len(r) :
                  /\ \E i \in solid :
                        /\ Cardinality({h \in solid : h < i}) = j - 1
                        /\ r[j] = [x |-> t[i].pos[1] * 16, y |-> t[i].pos[2] * 16,
                                   w |-> 16, h |-> 16]
                  /\ \A o \in 1..Len(offgrid_tiles) :
                        <<r[j].x, r[j].y>> # offgrid_tiles[o].pos

\* a neighbourhood with a decoration on the grid, solid tiles and a
\* decoration off the grid: only the solid tiles give rectangles
C12_Witness ==
    /\ query.method = "physics_rects_around"
    /\ offgrid_tiles # <<>>
    /\ \E i \in 1..Len(query.tiles) : query.tiles[i].type = "decor"
    /\ \E i \in 1..Len(query.tiles) : query.tiles[i].type = "grass"
    /\ Len(query.result) > 0
    /\ Len(query.result) < Len(query.tiles)

\* C13: tiles_around(p) takes the cell (floor(p.x / 16), floor(p.y / 16)),
\* also left of and above the origin, and returns the stored tiles of the 9
\* cells of the 3 x 3 block around it, each once, in NEIGHBOR_OFFSET order,
\* and nothing for a cell without a tile.
C13_TilesAround ==
    query.method = "tiles_around" =>
        LET loc == <<FloorOf(query.position[1], 160),
                     FloorOf(query.position[2], 160)>>
            cell(i) == <<loc[1] + NEIGHBOR_OFFSET[i][1],
                         loc[2] + NEIGHBOR_OFFSET[i][2]>>
            stored(c) == {tilemap[k] : k \in {j \in DOMAIN tilemap :
                                                  tilemap[j].pos = c}}
            occupied == {i \in 1..9 : stored(cell(i)) # {}}
            r == query.result
        IN  /\ Len(NEIGHBOR_OFFSET) = 9
            /\ {cell(i) : i \in 1..9} =
                   {<<loc[1] + dx, loc[2] + dy>> : dx \in -1..1, dy \in -1..1}
            /\ Len(r) = Cardinality(occupied)
            /\ \A j \in 1..Len(r) :
                  \E i \in occupied :
                      /\ Cardinality({h \in occupied : h < i}) = j - 1
                      /\ stored(cell(i)) = {r[j]}

\* a call from x = -1, y = -1 (cell (-1, -1)) that finds the tile stored there
C13_Witness ==
    /\ query.method = "tiles_around"
    /\ query.position = <<-10, -10>>
    /\ Len(query.result) = 1
    /\ query.result[1].pos = <<-1, -1>>

\* C14: the key of a grid coordinate (decimal x, ";", decimal y) is
\* injective, negative coordinates included: the key a reader builds for one
\* coordinate equals the key a writer built for another only if the
\* coordinates are equal, and for equal coordinates the reader finds the
\* tile the writer stored.
C14_KeyInjective ==
    query.method = "lookup" =>
        /\ (query.check_loc = query.loc) <=> (query.asked = query.coord)
        /\ query.asked = query.coord =>
              /\ query.found
              /\ query.tiles = <<Tile("decor", 0, query.coord)>>
        /\ query.found <=>
              \/ query.asked = query.coord
              \/ \E k \in DOMAIN InitialTilemap :
                    InitialTilemap[k].pos = query.asked

\* the tile written at (-1, 10) is found at (-1, 10); (1, 10), the same
\* digits without the sign, is another key
C14_Witness ==
    /\ query.method = "lookup"
    /\ query.coord = <<-1, 10>>
    /\ query.asked = <<-1, 10>>
    /\ query.found
    /\ Key(1, 10) # query.loc

\* a step that runs the placement and the removal of one editor pass
IsEditorPass == pc = "camera" /\ pc' = "preview"

\* the grid cell under the mouse
EditorCell == TilePosition(editor.mouse, editor.scroll)

\* C15: a pass with the right button held (with or without the left one,
\* whatever was placed at the cell before) leaves the store without the key
\* of the cell under the mouse and every other entry as it was; if no other
\* tile lies in the 3 x 3 block around the cell, tiles_around and
\* physics_rects_around at the cell are empty.
C15_PlaceThenRemove ==
    [][(IsEditorPass /\ editor.right_clicking) =>
         LET c == EditorCell
             loc == Key(c[1], c[2])
             alone == \A k \in DOMAIN tilemap' :
                         \/ tilemap'[k].pos[1] - c[1] \notin -1..1
                         \/ tilemap'[k].pos[2] - c[2] \notin -1..1
         IN  /\ loc \notin DOMAIN tilemap'
             /\ DOMAIN tilemap' = DOMAIN tilemap \ {loc}
             /\ \A k \in DOMAIN tilemap' : tilemap'[k] = tilemap[k]
             /\ alone =>
                   /\ TilesAround(tilemap', <<c[1] * 160, c[2] * 160>>) = <<>>
                   /\ PhysicsRectsAround(tilemap', <<c[1] * 160, c[2] * 160>>) = <<>>]_vars

\* both buttons held over the empty cell (15, 3): the tile placed by the
\* pass was removed by the same pass, and nothing is around
C15_Witness ==
    /\ pc = "preview"
    /\ editor.clicking
    /\ editor.right_clicking
    /\ query.tile_position = <<15, 3>>
    /\ ~query.found
    /\ Key(15, 3) \notin DOMAIN tilemap
    /\ TilesAround(tilemap, <<2400, 480>>) = <<>>

\* C16: a removal at a cell without a tile leaves the store as it was and
\* raises nothing, and a second removal leaves the store of the first.
C16_RemoveAbsent ==
    /\ [](raised = "none")
    /\ [][(IsEditorPass /\ editor.right_clicking /\ ~editor.clicking) =>
            /\ Key(EditorCell[1], EditorCell[2]) \notin DOMAIN tilemap =>
                  tilemap' = tilemap
            /\ EditorPass(tilemap', editor).tilemap = tilemap']_vars

\* the right button alone over a cell that held no tile: nothing raised
C16_Witness ==
    /\ pc = "preview"
    /\ editor.right_clicking
    /\ ~editor.clicking
    /\ query.tile_position = <<15, 3>>
    /\ ~query.found
    /\ raised = "none"

\* C17: every key of the store maps to a tile whose pos encodes to that key,
\* so no two tiles share a cell; a placement at an occupied cell replaces
\* the tile there and keeps the number of tiles.
C17_OneTilePerCell ==
    /\ [](\A k \in DOMAIN tilemap :
             Key(tilemap[k].pos[1], tilemap[k].pos[2]) = k)
    /\ [](\A k1, k2 \in DOMAIN tilemap :
             tilemap[k1].pos = tilemap[k2].pos => k1 = k2)
    /\ [][(IsEditorPass /\ editor.clicking /\ ~editor.right_clicking
             /\ Key(EditorCell[1], EditorCell[2]) \in DOMAIN tilemap) =>
            /\ Cardinality(DOMAIN tilemap') = Cardinality(DOMAIN tilemap)
            /\ tilemap'[Key(EditorCell[1], EditorCell[2])] =
                  Tile(TILE_GROUPS[editor.tile_group + 1], editor.tile_variant,
                       EditorCell)]_vars

\* a decoration was placed over the grass tile (4, 10): still 19 tiles
C17_Witness ==
    /\ pc = "preview"
    /\ editor.clicking
    /\ ~editor.right_clicking
    /\ query.tile_position = <<4, 10>>
    /\ query.found
    /\ tilemap[Key(4, 10)].type = "decor"
    /\ Cardinality(DOMAIN tilemap) = 19

\* the cells of the box x0..x1 by y0..y1, column after column
BoxCells(x0, x1, y0, y1) ==
    [i \in 1..((x1 - x0 + 1) * (y1 - y0 + 1)) |->
        <<x0 + ((i - 1) \div (y1 - y0 + 1)), y0 + ((i - 1) % (y1 - y0 + 1))>>]

\* render looked up exactly the cells of box, in order, and drew exactly the
\* stored tiles among them at pos * 16 - offset
RenderedBox(box) ==
    LET v == query.result.visited
        b == query.result.blits
        stored(c) == {tilemap[k] : k \in {j \in DOMAIN tilemap :
                                              tilemap[j].pos = c}}
        occupied == {i \in 1..Len(box) : stored(box[i]) # {}}
    IN  /\ v = box
        /\ Len(b) = Cardinality(occupied)
        /\ \A j \in 1..Len(b) :
              \E i \in occupied :
                  /\ Cardinality({h \in occupied : h < i}) = j - 1
                  /\ \E t \in stored(box[i]) :
                        b[j] = [type |-> t.type, variant |-> t.variant,
                                dest |-> <<box[i][1] * 16 - query.offset[1],
                                           box[i][2] * 16 - query.offset[2]>>]

\* C18 as stated: on each axis render goes from floor(offset / 16) up to and
\* including floor((offset + dimension) / 16) + 1.
C18_RenderBoxPlusOne ==
    query.method = "render" =>
        RenderedBox(BoxCells(
            FloorOf(query.offset[1], 16),
            FloorOf(query.offset[1] + query.surface_size[1], 16) + 1,
            FloorOf(query.offset[2], 16),
            FloorOf(query.offset[2] + query.surface_size[2], 16) + 1))

\* C18: on each axis render goes from floor(offset / 16) up to and including
\* floor((offset + dimension) / 16), the cell before the exclusive end
\* floor((offset + dimension) / 16) + 1; it looks up only the cells of that
\* box, skips the absent ones and draws each stored tile of the box at
\* grid position * 16 - offset.
C18_RenderBox ==
    query.method = "render" =>
        RenderedBox(BoxCells(
            FloorOf(query.offset[1], 16),
            FloorOf(query.offset[1] + query.surface_size[1], 16),
            FloorOf(query.offset[2], 16),
            FloorOf(query.offset[2] + query.surface_size[2], 16)))

\* a 32 x 32 surface at offset (40, 140): columns 2..4 are looked up and the
\* grass tile (4, 10) is drawn; the grass tile (5, 10), in column
\* floor(72 / 16) + 1, is not looked up
C18_Witness ==
    /\ query.method = "render"
    /\ query.surface_size = <<32, 32>>
    /\ query.offset = <<40, 140>>
    /\ Key(5, 10) \in DOMAIN tilemap
    /\ \E i \in 1..Len(query.result.visited) :
          query.result.visited[i] = <<4, 10>>
    /\ \A i \in 1..Len(query.result.visited) :
          query.result.visited[i][1] # 5
    /\ \E j \in 1..Len(query.result.blits) :
          query.result.blits[j].dest = <<4 * 16 - 40, 10 * 16 - 140>>

\* C19: a body whose size has a component <= 0 is never left constructed or
\* updated without an error having been raised.
C19_BadSizeFailsFast ==
    (size[1] <= 0 \/ size[2] <= 0) => raised # "none"

\* a step in which a jump event (K_UP or joystick button 0) was handled
IsJumpEvent == jumps' = jumps + 1

\* C20: a jump event sets velocity.y to JUMP_SPEED and changes nothing else
\* of the player or of the intent; it is taken in every state, on the ground
\* or in the air, whatever the number of jumps before; a jump event that
\* follows another before the next update changes nothing.
C20_JumpImpulse ==
    /\ [](jumps < MaxJumps => ENABLED JumpEvent)
    /\ [][IsJumpEvent =>
            /\ PlayerNow' = [PlayerNow EXCEPT !.velocity = <<velocity[1], -30>>]
            /\ movement' = movement
            /\ velocity[2] = -30 => PlayerNow' = PlayerNow]_vars

\* a second jump event, taken in the air after the first one
C20_Witness ==
    /\ jumps = 2
    /\ air_time > 0
    /\ ~collisions.down
    /\ jump_count = "unset"
    /\ velocity[2] = JUMP_SPEED

\* a step in which the camera lines of Game.run ran
IsCameraUpdate == pc = "camera" /\ pc' = "render_world"

\* the scroll the camera is asked for: rectangle centre minus half the display
DesiredOffset ==
    <<Trunc(position[1], 10) + 4 - 160, Trunc(position[2], 10) + 7 - 120>>

\* one axis of a camera update towards 300: the increment is a thirtieth of
\* the distance left, to within half a step of the resolution of the scroll
StepTowards300(s, t) ==
    /\ 2 * (30 * (t - s) - (300 * ScrollUnit - s)) <= 30
    /\ 2 * (30 * (t - s) - (300 * ScrollUnit - s)) > -30
    /\ s = 0 => t = 10 * ScrollUnit
    /\ t < 300 * ScrollUnit

C22_CopyIsFresh ==
    /\ [](\A k \in DOMAIN assets : assets[k].frame = 0 /\ ~assets[k].done)
    /\ [][AnimCopyStep =>
            /\ anim'.images = anim.images
            /\ anim'.image_duration = anim.image_duration
            /\ anim'.loop = anim.loop
            /\ anim'.total_animation_frames = anim.total_animation_frames
            /\ anim'.frame = 0
            /\ anim'.done = FALSE]_vars
    /\ [][IsPlayerUpdate =>
            /\ assets' = assets
            /\ action' # action =>
                  /\ animation' = [assets[AssetKey("player", action')]
                                     EXCEPT !.frame = 0, !.done = FALSE]
                  /\ animation' = assets'[AssetKey("player", action')]]_vars

\* the entity has fallen into the jump action and advanced its own copy of
\* the jump template, whose frame is still 0; beside it stands a fresh copy
\* of a finished one-shot animation with two images
C22_Witness ==
    /\ action = "jump"
    /\ animation.frame > 0
    /\ assets[AssetKey("player", "jump")].frame = 0
    /\ assets[AssetKey("player", "idle")].frame = 0
    /\ ~anim.loop
    /\ Len(anim.images) = 2
    /\ anim.frame = 0
    /\ ~anim.done
    /\ anim_k = 0

\* C23: after an update flip is true if the horizontal intent of the tick is
\* negative, false if it is positive and what it was before if the intent is
\* 0 (no key or both keys held), whether the body moved or was stopped by a
\* tile.
C23_Facing ==
    [][IsPlayerUpdate =>
         /\ (movement[1] /\ ~movement[2]) => flip'
         /\ (movement[2] /\ ~movement[1]) => ~flip'
         /\ (movement[1] <=> movement[2]) => flip' = flip]_vars

\* the body walked left into the stone column, was put back against it and
\* faces left
C23_Witness ==
    /\ flip
    /\ collisions.left
    /\ position[1] = 176 * 10
    /\ movement = <<TRUE, FALSE>>

\* the body rectangle right after position[1] += frame_movement[1], the x
\* axis being resolved
RectAfterYMove ==
    [x |-> Trunc(position'[1], 10),
     y |-> Trunc(position[2] + FrameMovement[2], 10), w |-> 8, h |-> 15]

\* C24: the flags an update leaves are those of its own two passes:
\* collisions.right needs frame_movement.x > 0, left needs it < 0, down needs
\* frame_movement.y > 0, up needs it < 0, and each needs the moved rectangle
\* to overlap a solid tile in that update; left and right are never both
\* true, nor are up and down.
C24_FlagsOfThisTick ==
    /\ [](~(collisions.left /\ collisions.right))
    /\ [](~(collisions.up /\ collisions.down))
    /\ [][IsPlayerUpdate =>
            /\ collisions'.right => (FrameMovement[1] > 0 /\ HitAfterXMove # {})
            /\ collisions'.left => (FrameMovement[1] < 0 /\ HitAfterXMove # {})
            /\ collisions'.down =>
                  /\ FrameMovement[2] > 0
                  /\ \E t \in SolidTiles : CollideRect(RectAfterYMove, TileRect(t))
            /\ collisions'.up =>
                  /\ FrameMovement[2] < 0
                  /\ \E t \in SolidTiles : CollideRect(RectAfterYMove, TileRect(t))]_vars

\* the body jumped against the underside of the grass row (top edge put on
\* y = 176, up set, speed 0) and one more update has run: gravity has given
\* it 0.1 and every flag is false again
C24_Witness ==
    /\ jumps > 0
    /\ position[2] = 176 * 10
    /\ velocity[2] = 1
    /\ air_time > 1
    /\ collisions = NoCollisions

\* C28: Player.update runs the physics update, which advances the animation,
\* and selects the action afterwards: an update that changes the label
\* leaves the new action's copy at frame 0, not advanced in that update; one
\* that keeps the label leaves the same instance with its frame advanced by
\* exactly one step, modulo the total number of frames.
C28_AdvanceThenSelect ==
    [][IsPlayerUpdate =>
         /\ action' # action =>
               /\ animation'.frame = 0
               /\ animation'.total_animation_frames =
                     assets[AssetKey("player", action')].total_animation_frames
               /\ animation'.images = assets[AssetKey("player", action')].images
         /\ action' = action =>
               /\ animation'.frame =
                     (animation.frame + 1) % animation.total_animation_frames
               /\ animation'.images = animation.images
               /\ animation'.image_duration = animation.image_duration]_vars

\* the first update, made with a direction held: the label went from idle to
\* run and the run animation stands at frame 0
C28_Witness ==
    /\ ticks = 1
    /\ action = "run"
    /\ animation.frame = 0
    /\ animation.image_duration = 4

\* the 16 x 16 pixel square of the tile shares a pixel with the viewport
\* [offset, offset + dimension) on both axes
InViewport(t) ==
    /\ t.pos[1] * 16 < query.offset[1] + query.surface_size[1]
    /\ t.pos[1] * 16 + 16 > query.offset[1]
    /\ t.pos[2] * 16 < query.offset[2] + query.surface_size[2]
    /\ t.pos[2] * 16 + 16 > query.offset[2]

\* the blits of the grid loop that draw the tile
BlitsOf(t) ==
    {j \in 1..Len(query.result.blits) :
        query.result.blits[j] =
            [type |-> t.type, variant |-> t.variant,
             dest |-> <<t.pos[1] * 16 - query.offset[1],
                        t.pos[2] * 16 - query.offset[2]>>]}

\* C29: in one render call every stored grid tile whose square shares a
\* pixel with the viewport is drawn, whatever the sign of the offset, no
\* stored grid tile is drawn twice, and nothing but stored grid tiles is
\* drawn by the grid loop.
C29_ViewportCovered ==
    query.method = "render" =>
        /\ \A k \in DOMAIN tilemap :
              /\ InViewport(tilemap[k]) => Cardinality(BlitsOf(tilemap[k])) = 1
              /\ Cardinality(BlitsOf(tilemap[k])) <= 1
        /\ \A j \in 1..Len(query.result.blits) :
              \E k \in DOMAIN tilemap : j \in BlitsOf(tilemap[k])

\* a 32 x 32 surface at offset (-20, -20): the tile of cell (-1, -1), whose
\* square is [-16, 0) on both axes, is in the viewport and is drawn at (4, 4)
C29_Witness ==
    /\ query.method = "render"
    /\ query.offset = <<-20, -20>>
    /\ query.surface_size = <<32, 32>>
    /\ Key(-1, -1) \in DOMAIN tilemap
    /\ InViewport(tilemap[Key(-1, -1)])
    /\ \E j \in 1..Len(query.result.blits) :
          query.result.blits[j].dest = <<4, 4>>

\* a step of the event loop in which the mouse wheel was turned: button 4 is
\* up, button 5 is down
IsWheelEvent(b) == pc = "events" /\ editor' = EditorButtonDown(editor, b)

\* C30: every tile group having at least one variant, tile_group is always
\* an index of the group list and tile_variant an index of the images of
\* the selected group; the wheel without shift moves tile_group by one,
\* wrapping, and sets tile_variant to 0; the wheel with shift moves
\* tile_variant by one, wrapping within the selected group, and leaves
\* tile_group as it was.
C30_SelectionValid ==
    /\ [](\A g \in 1..Len(TILE_GROUPS) : variants_count[TILE_GROUPS[g]] >= 1)
    /\ [](/\ 0 <= editor.tile_group
          /\ editor.tile_group < 4
          /\ 0 <= editor.tile_variant
          /\ editor.tile_variant < variants_count[TILE_GROUPS[editor.tile_group + 1]])
    /\ [][\A b \in {4, 5} : IsWheelEvent(b) =>
            LET d == IF b = 4 THEN 3 ELSE 1
                n == variants_count[TILE_GROUPS[editor.tile_group + 1]]
            IN  /\ ~editor.shift =>
                      /\ editor'.tile_group = (editor.tile_group + d) % 4
                      /\ editor'.tile_variant = 0
                /\ editor.shift =>
                      /\ editor'.tile_group = editor.tile_group
                      /\ editor'.tile_variant =
                            (editor.tile_variant + (IF b = 4 THEN n - 1 ELSE 1)) % n]_vars

\* the third image of large_decor was selected with shift and the wheel and
\* placed; the wheel without shift then went on to decor, which has fewer
\* images, and the variant is 0
C30_Witness ==
    /\ Key(15, 3) \in DOMAIN tilemap
    /\ tilemap[Key(15, 3)].type = "large_decor"
    /\ tilemap[Key(15, 3)].variant = variants_count["large_decor"] - 1
    /\ variants_count["decor"] < variants_count["large_decor"]
    /\ editor.tile_group = 0
    /\ editor.tile_variant = 0
    /\ ~editor.shift

GroundUnder ==
    \E k \in DOMAIN tilemap :
        /\ tilemap[k].type \in {"grass", "stone"}
        /\ UnderOrOver(tilemap[k], position[1])
        /\ tilemap[k].pos[2] * 16 = Trunc(position[2], 10) + 15

\* C26: while the player that has landed (air_time < ticks) stays over
\* solid ground and no jump event occurs, air_time never exceeds 4 (a down
\* collision ends at least one of any 5 consecutive updates: the update
\* that follows air_time = 4 ends with collisions.down) and the action is
\* never "jump".
C26_RestingNeverJumps ==
    /\ []((air_time < ticks /\ jumps = 0 /\ GroundUnder) =>
            (air_time <= JUMP_ANIMATION_THRESHOLD /\ action # "jump"))
    /\ [][(/\ IsPlayerUpdate
           /\ air_time < ticks /\ jumps = 0 /\ GroundUnder /\ GroundUnder'
           /\ air_time = JUMP_ANIMATION_THRESHOLD) =>
            (collisions'.down /\ air_time' = 0)]_vars

\* the player walks on the grass, four updates after its last down
\* collision, and still shows the run animation
C26_Witness ==
    /\ air_time < ticks /\ jumps = 0 /\ GroundUnder
    /\ air_time = JUMP_ANIMATION_THRESHOLD
    /\ ~collisions.down
    /\ action = "run"
    /\ position[1] # PlayerSpawn[1] * 10
    /\ ticks >= 49

\* C27: from the spawn, with intent 0 and no jump, some update ends with
\* collisions.down and position.y = 145, and in every state from then on
\* 145 <= position.y < 146 and position.x = 50.
C27_LandingGuaranteed ==
    /\ <>(collisions.down /\ position[2] = 145 * 10)
    /\ []((collisions.down /\ position[2] = 145 * 10) =>
            [](/\ 145 * 10 <= position[2]
               /\ position[2] < 146 * 10
               /\ position[1] = 50 * 10))

\* the player has landed and gravity has lifted position.y off 145 again,
\* four updates after the last down collision
C27_Witness ==
    /\ air_time < ticks
    /\ ticks > 45
    /\ air_time = 4
    /\ ~collisions.down
    /\ position[1] = 50 * 10
    /\ position[2] > 145 * 10
    /\ position[2] < 146 * 10
====
